---- MODULE Spec2Model ----
(***************************************************************************)
(* Model of src/src/App.js: the anomaly-detection dashboard.               *)
(*                                                                         *)
(*   - getSeverityClass: severity and theme to a colour class (l. 6-16)    *)
(*   - HyperSphereVisualization: the effect that projects the record list  *)
(*     to points of the SVG (l. 18-98)                                     *)
(*   - App: the state (data, loading, error, darkMode, sortOrder), the     *)
(*     mount effect with its interval timer, fetchData, handleSort and     *)
(*     the three views (l. 110-320)                                        *)
(*                                                                         *)
(* Numbers are JavaScript numbers restricted to the integers and NaN: a    *)
(* number is a record [nan, v]. Coordinates and distances are exact        *)
(* rationals, kept as integers in units of 1/Scale.                        *)
(***************************************************************************)
EXTENDS Integers, Sequences, FiniteSets, TLC

(***************************************************************************)
(* Bounds of the model.                                                    *)
(***************************************************************************)
\* Longest transactions list a response carries.
MaxLen == 2
\* Most fetch requests outstanding at once.
MaxInflight == 2
\* Most handleSort invocations counted in one run.
MaxSorts == 2
\* Number of distinct angles Math.random() * 2 * PI takes: k * PI / 2, k < NAngles.
NAngles == 2

(***************************************************************************)
(* JavaScript values.                                                      *)
(***************************************************************************)
Num(n) == [nan |-> FALSE, v |-> n]
NaN == [nan |-> TRUE, v |-> 0]

\* a * b on numbers: NaN is absorbing (0 * NaN is NaN too).
Mul(a, b) == IF a.nan \/ b.nan THEN NaN ELSE Num(a.v * b.v)

\* A string is a sequence of one-character strings.
Digits == {"0", "1", "2", "3", "4", "5", "6", "7", "8", "9"}

DigitVal(c) ==
  CASE c = "0" -> 0 [] c = "1" -> 1 [] c = "2" -> 2 [] c = "3" -> 3
    [] c = "4" -> 4 [] c = "5" -> 5 [] c = "6" -> 6 [] c = "7" -> 7
    [] c = "8" -> 8 [] c = "9" -> 9

\* StrDecimalLiteral: the value of the longest prefix of str made of
\* digits, read in base ten from the value acc of the digits before it.
RECURSIVE DecimalValue(_, _)
DecimalValue(str, acc) ==
  IF str = <<>> \/ Head(str) \notin Digits THEN acc
  ELSE DecimalValue(Tail(str), 10 * acc + DigitVal(Head(str)))

RECURSIVE SkipBlanks(_)
SkipBlanks(str) ==
  IF str # <<>> /\ Head(str) = " " THEN SkipBlanks(Tail(str)) ELSE str

\* parseFloat on strings of blanks, sign, digits and other characters:
\* leading blanks are skipped, the longest numeric prefix is read and what
\* follows it is ignored; a string with no numeric prefix parses to NaN.
parseFloat(string) ==
  LET str == SkipBlanks(string)
      signed == str # <<>> /\ Head(str) \in {"-", "+"}
      body == IF signed THEN Tail(str) ELSE str
  IN  IF body = <<>> \/ Head(body) \notin Digits THEN NaN
      ELSE IF signed /\ Head(str) = "-" THEN Num(0 - DecimalValue(body, 0))
      ELSE Num(DecimalValue(body, 0))

(***************************************************************************)
(* getSeverityClass (l. 6-16).                                             *)
(***************************************************************************)
\* The value of a severity field the record does not have.
Undefined == "undefined"

getSeverityClass_swapLow(severity, isDark) ==
  CASE severity = "HIGH" -> IF isDark THEN "text-red-400" ELSE "text-red-600"
    [] severity = "MEDIUM-HIGH" -> IF isDark THEN "text-orange-400" ELSE "text-orange-500"
    [] severity = "MEDIUM" -> IF isDark THEN "text-yellow-400" ELSE "text-yellow-500"
    [] severity = "LOW-MEDIUM" -> IF isDark THEN "text-blue-400" ELSE "text-blue-500"
    [] severity = "LOW" -> IF isDark THEN "text-blue-400" ELSE "text-blue-400"
    [] severity = "VERY-LOW" -> IF isDark THEN "text-green-400" ELSE "text-green-500"
    [] OTHER -> IF isDark THEN "text-gray-400" ELSE "text-gray-500"

getSeverityClass(severity, isDark) ==
  CASE severity = "HIGH" -> IF isDark THEN "text-red-400" ELSE "text-red-600"
    [] severity = "MEDIUM-HIGH" -> IF isDark THEN "text-orange-400" ELSE "text-orange-500"
    [] severity = "MEDIUM" -> IF isDark THEN "text-yellow-400" ELSE "text-yellow-500"
    [] severity = "LOW-MEDIUM" -> IF isDark THEN "text-blue-400" ELSE "text-blue-400"
    [] severity = "LOW" -> IF isDark THEN "text-blue-400" ELSE "text-blue-500"
    [] severity = "VERY-LOW" -> IF isDark THEN "text-green-400" ELSE "text-green-500"
    [] OTHER -> IF isDark THEN "text-gray-400" ELSE "text-gray-500"

(***************************************************************************)
(* The projection of HyperSphereVisualization (l. 25-63).                  *)
(***************************************************************************)
width == 400
height == 400
Min(a, b) == IF a < b THEN a ELSE b
radius == Min(width, height) \div 2 - 40
\* radius * 0.6
innerRadius == (radius * 6) \div 10

\* Distances and coordinates are held in units of 1/Scale: with integer
\* scores, innerRadius + score/100 * (radius - innerRadius) and
\* score/100 * innerRadius * 0.9 are whole multiples of 1/125.
Scale == 125

\* distance of l. 53-55, in units of 1/Scale, for the parsed score and
\* tx.is_anomaly.
distance_fullNormal(score, is_anomaly) ==
  IF score.nan THEN NaN
  ELSE IF is_anomaly
    THEN Num(innerRadius * Scale + (score.v * (radius - innerRadius) * Scale) \div 100)
    ELSE Num((score.v * innerRadius * 10 * Scale) \div 1000)

distance_fromOrigin(score, is_anomaly) ==
  IF score.nan THEN NaN
  ELSE IF is_anomaly
    THEN Num((score.v * radius * Scale) \div 100)
    ELSE Num((score.v * innerRadius * 9 * Scale) \div 1000)

distance(score, is_anomaly) ==
  IF score.nan THEN NaN
  ELSE IF is_anomaly
    THEN Num(innerRadius * Scale + (score.v * (radius - innerRadius) * Scale) \div 100)
    ELSE Num((score.v * innerRadius * 9 * Scale) \div 1000)

\* Math.cos and Math.sin at the angle k * PI / 2.
Cos(k) == CASE k % 4 = 0 -> 1 [] k % 4 = 1 -> 0 [] k % 4 = 2 -> -1 [] k % 4 = 3 -> 0
Sin(k) == CASE k % 4 = 0 -> 0 [] k % 4 = 1 -> 1 [] k % 4 = 2 -> 0 [] k % 4 = 3 -> -1

\* The point of one record at the angle k * PI / 2 (l. 50-63).
point(tx, k) ==
  LET score == parseFloat(tx.anomaly_percentage)
      d == distance(score, tx.is_anomaly)
  IN  [x |-> Mul(Num(Cos(k)), d),
       y |-> Mul(Num(Sin(k)), d),
       score |-> score,
       isAnomaly |-> tx.is_anomaly]

points_skipNaN(transactions, s0) ==
  LET kept == SelectSeq(transactions, LAMBDA tx : ~parseFloat(tx.anomaly_percentage).nan)
  IN  [i \in 1..Len(kept) |-> point(kept[i], (s0 + i) % NAngles)]

\* data.transactions.map(...) of l. 50: the i-th call of Math.random() after
\* the generator state s0 yields the angle ((s0 + i) % NAngles) * PI / 2.
points(transactions, s0) ==
  [i \in 1..Len(transactions) |-> point(transactions[i], (s0 + i) % NAngles)]

(***************************************************************************)
(* Records and responses of the external service.                          *)
(***************************************************************************)
Tx(percentage, anomaly, sev) ==
  [anomaly_percentage |-> percentage, is_anomaly |-> anomaly, severity |-> sev]

\* The records the dashboard is fed in the runs of App: a normal record, an
\* anomaly with a higher score and a record whose percentage is no number.
AppRecords ==
  { Tx(<<"1", "0">>, FALSE, "LOW"),
    Tx(<<"9", "0">>, TRUE, "HIGH"),
    Tx(<<"n", "/", "a">>, TRUE, Undefined) }

\* All lists of at most n elements of S.
ListsUpTo(S, n) == UNION { [1..k -> S] : k \in 0..n }

\* useState(null) of l. 111, and a response body: an object with
\* total_transactions and, unless the key is missing, transactions.
Null ==
  [isNull |-> TRUE, hasTransactions |-> FALSE, total_transactions |-> 0,
   transactions |-> <<>>]
Body(total, txs) ==
  [isNull |-> FALSE, hasTransactions |-> TRUE, total_transactions |-> total,
   transactions |-> txs]
BodyWithoutTransactions(total) ==
  [isNull |-> FALSE, hasTransactions |-> FALSE, total_transactions |-> total,
   transactions |-> <<>>]

Responses ==
  { Body(Len(txs), txs) : txs \in ListsUpTo(AppRecords, MaxLen) }
    \cup { BodyWithoutTransactions(n) : n \in {0, MaxLen} }

\* data?.transactions is truthy (l. 22, 146, 258): an empty array is.
HasTransactions(d) == ~d.isNull /\ d.hasTransactions

NoError == "null"
ErrorMessage == "Error fetching data, please refresh the page"

(***************************************************************************)
(* State.                                                                  *)
(***************************************************************************)
VARIABLES
  data, loading, error, darkMode, sortOrder,  \* useState of App, l. 111-115
  phase,      \* "rendered" (first render done), "mounted", "unmounted"
  timers,     \* number of active interval timers
  inflight,   \* outstanding requests, oldest first: TRUE once the request
              \* has been outstanding at a timer tick, i.e. a whole interval
  svg,        \* the <svg> of HyperSphereVisualization: mounted, its circles
  seed,       \* state of the generator behind Math.random()
  nSorts,     \* history: handleSort invocations that sorted
  lastResponse, \* history: body of the last successful fetch applied
  in_transactions, in_severity, in_isDark,  \* inputs of the pure functions
  out_points, out_class, pc                 \* and their results

appVars == <<data, loading, error, darkMode, sortOrder>>
envVars == <<phase, timers, inflight>>
histVars == <<nSorts, lastResponse>>
pureVars == <<in_transactions, in_severity, in_isDark, out_points, out_class, pc>>
vars == <<appVars, envVars, svg, seed, histVars, pureVars>>

NoSvg == [mounted |-> FALSE, circles |-> <<>>]
EmptySvg == [mounted |-> TRUE, circles |-> <<>>]

ViewOf_ignoreError(ph, l, e) ==
  IF ph = "unmounted" THEN "none"
  ELSE IF l THEN "spinner"
  ELSE "main"

\* What App returns (l. 161-177); nothing is displayed after teardown.
ViewOf(ph, l, e) ==
  IF ph = "unmounted" THEN "none"
  ELSE IF l THEN "spinner"
  ELSE IF e # NoError THEN "error"
  ELSE "main"

View == ViewOf(phase, loading, error)

\* One row of the table (l. 259-311): the percentage as received, its
\* colour class and the status badge.
Row(tx, isDark) ==
  [percentage |-> tx.anomaly_percentage,
   class |-> getSeverityClass(tx.severity, isDark),
   status |-> IF tx.is_anomaly THEN "Anomaly" ELSE "Normal"]

\* The rows of <tbody> (l. 257-313) in the view shown.
TableRows ==
  IF View = "main" /\ HasTransactions(data)
  THEN [i \in 1..Len(data.transactions) |-> Row(data.transactions[i], darkMode)]
  ELSE <<>>

\* The circles of class "point" on display.
DrawnPoints == IF View = "main" THEN svg.circles ELSE <<>>

(***************************************************************************)
(* Array.prototype.sort with the comparator of handleSort (l. 148-152).    *)
(***************************************************************************)
\* The comparator's result: "neg", "zero", "pos"; a NaN result counts as +0.
compare_descendingOnly(a, b, order) ==
  LET scoreA == parseFloat(a.anomaly_percentage)
      scoreB == parseFloat(b.anomaly_percentage)
      diff == scoreB.v - scoreA.v
  IN  IF scoreA.nan \/ scoreB.nan THEN "zero"
      ELSE IF diff < 0 THEN "neg"
      ELSE IF diff > 0 THEN "pos"
      ELSE "zero"

compare_ascendingOnly(a, b, order) ==
  LET scoreA == parseFloat(a.anomaly_percentage)
      scoreB == parseFloat(b.anomaly_percentage)
      diff == scoreA.v - scoreB.v
  IN  IF scoreA.nan \/ scoreB.nan THEN "zero"
      ELSE IF diff < 0 THEN "neg"
      ELSE IF diff > 0 THEN "pos"
      ELSE "zero"

compare(a, b, order) ==
  LET scoreA == parseFloat(a.anomaly_percentage)
      scoreB == parseFloat(b.anomaly_percentage)
      diff == IF order = "desc" THEN scoreB.v - scoreA.v ELSE scoreA.v - scoreB.v
  IN  IF scoreA.nan \/ scoreB.nan THEN "zero"
      ELSE IF diff < 0 THEN "neg"
      ELSE IF diff > 0 THEN "pos"
      ELSE "zero"

\* The comparator is consistent on the list: being equal under it is
\* transitive. It is not when a NaN score sits between two different scores.
Consistent(list, order) ==
  \A i, j, k \in 1..Len(list) :
    (compare(list[i], list[j], order) = "zero"
       /\ compare(list[j], list[k], order) = "zero")
      => compare(list[i], list[k], order) = "zero"

\* Insert x behind every element that does not sort after it.
RECURSIVE Insert(_, _, _)
Insert(x, sorted, order) ==
  IF sorted = <<>> THEN <<x>>
  ELSE IF compare(Head(sorted), x, order) = "pos"
    THEN <<x>> \o sorted
    ELSE <<Head(sorted)>> \o Insert(x, Tail(sorted), order)

\* The stable sort: elements are inserted in their original order.
RECURSIVE StableSort(_, _)
StableSort(list, order) ==
  IF list = <<>> THEN <<>>
  ELSE Insert(list[Len(list)], StableSort(SubSeq(list, 1, Len(list) - 1), order), order)

Rearrangements(list) ==
  { [i \in 1..Len(list) |-> list[p[i]]] :
      p \in { q \in [1..Len(list) -> 1..Len(list)] :
                \A i, j \in 1..Len(list) : i # j => q[i] # q[j] } }

\* What [...list].sort(comparator) may return: the stable sort when the
\* comparator is consistent, otherwise an implementation-defined order.
SortResults(list, order) ==
  IF Consistent(list, order) THEN { StableSort(list, order) }
  ELSE Rearrangements(list)

(***************************************************************************)
(* Rendering: the commit of a state change and the effect of               *)
(* HyperSphereVisualization (l. 21-98) that follows it.                    *)
(***************************************************************************)
\* The effect runs when the component mounts and when data or darkMode
\* changed (l. 98); it returns before touching the SVG when
\* data?.transactions is falsy (l. 22), otherwise it empties the SVG (l. 31)
\* and draws one circle per point (l. 66-69).
SvgAfter(newView, newData, depsChanged) ==
  IF newView # "main" THEN NoSvg
  ELSE IF svg.mounted /\ ~depsChanged THEN svg
  ELSE IF ~HasTransactions(newData) THEN (IF svg.mounted THEN svg ELSE EmptySvg)
  ELSE [mounted |-> TRUE, circles |-> points(newData.transactions, seed)]

\* Math.random() was called once per record when the effect drew.
SeedAfter(newView, newData, depsChanged) ==
  IF newView = "main" /\ (~svg.mounted \/ depsChanged) /\ HasTransactions(newData)
  THEN (seed + Len(newData.transactions)) % NAngles
  ELSE seed

Render(newView, newData, depsChanged) ==
  /\ svg' = SvgAfter(newView, newData, depsChanged)
  /\ seed' = SeedAfter(newView, newData, depsChanged)

(***************************************************************************)
(* The state after construction: the useState initial values (l. 111-115)  *)
(* and the first render, which shows the spinner.                          *)
(***************************************************************************)
PureIdle ==
  /\ in_transactions = <<>>
  /\ in_severity = Undefined
  /\ in_isDark = FALSE
  /\ out_points = <<>>
  /\ out_class = ""
  /\ pc = "app"

Init ==
  /\ data = Null
  /\ loading = TRUE
  /\ error = NoError
  /\ darkMode = FALSE
  /\ sortOrder = "desc"
  /\ phase = "rendered"
  /\ timers = 0
  /\ inflight = <<>>
  /\ svg = NoSvg
  /\ seed \in 0..(NAngles - 1)
  /\ nSorts = 0
  /\ lastResponse = Null
  /\ PureIdle

(***************************************************************************)
(* Operations.                                                             *)
(***************************************************************************)
\* Every request outstanding at a tick has waited a whole interval.
Aged(reqs) == [i \in 1..Len(reqs) |-> TRUE]

\* The outstanding requests without the oldest one whose flag is aged.
RECURSIVE Remove(_, _)
Remove(reqs, aged) ==
  IF reqs = <<>> THEN <<>>
  ELSE IF Head(reqs) = aged THEN Tail(reqs)
  ELSE <<Head(reqs)>> \o Remove(Tail(reqs), aged)

Flags(reqs) == { reqs[i] : i \in 1..Len(reqs) }

Mount_fetchTwice ==
  /\ phase = "rendered"
  /\ phase' = "mounted"
  /\ loading' = TRUE
  /\ inflight' = Append(Append(inflight, FALSE), FALSE)
  /\ \E prefersDark \in BOOLEAN :
       darkMode' = IF prefersDark THEN TRUE ELSE darkMode
  /\ timers' = timers + 1
  /\ Render(ViewOf("mounted", TRUE, error), data, FALSE)
  /\ UNCHANGED <<data, error, sortOrder, nSorts, lastResponse, pureVars>>

\* The mount effect (l. 117-129): fetchData() up to its await, the
\* colour-scheme preference, setInterval.
Mount ==
  /\ phase = "rendered"
  /\ phase' = "mounted"
  /\ loading' = TRUE
  /\ inflight' = Append(inflight, FALSE)
  /\ \E prefersDark \in BOOLEAN :
       darkMode' = IF prefersDark THEN TRUE ELSE darkMode
  /\ timers' = timers + 1
  /\ Render(ViewOf("mounted", TRUE, error), data, FALSE)
  /\ UNCHANGED <<data, error, sortOrder, nSorts, lastResponse, pureVars>>

\* The interval fires (l. 125): fetchData() up to its await (l. 131-134).
\* A state update of a component that is torn down is dropped.
TimerFire ==
  /\ timers > 0
  /\ Len(inflight) < MaxInflight
  /\ inflight' = Append(Aged(inflight), FALSE)
  /\ loading' = IF phase = "mounted" THEN TRUE ELSE loading
  /\ Render(ViewOf(phase, loading', error), data, FALSE)
  /\ UNCHANGED <<data, error, darkMode, sortOrder, phase, timers, nSorts,
                 lastResponse, pureVars>>

FetchSucceed_keepError ==
  \E aged \in Flags(inflight) :
    /\ inflight' = Remove(inflight, aged)
    /\ IF phase = "mounted"
       THEN \E response \in Responses :
              /\ data' = response
              /\ loading' = FALSE
              /\ lastResponse' = response
              /\ Render(ViewOf(phase, FALSE, error), response, TRUE)
       ELSE UNCHANGED <<data, loading, lastResponse, svg, seed>>
    /\ UNCHANGED <<error, darkMode, sortOrder, phase, timers, nSorts, pureVars>>

\* The request resolves with a 2xx response (l. 135-136, 141).
FetchSucceed ==
  \E aged \in Flags(inflight) :
    /\ inflight' = Remove(inflight, aged)
    /\ IF phase = "mounted"
       THEN \E response \in Responses :
              /\ data' = response
              /\ error' = NoError
              /\ loading' = FALSE
              /\ lastResponse' = response
              /\ Render(ViewOf(phase, FALSE, NoError), response, TRUE)
       ELSE UNCHANGED <<data, error, loading, lastResponse, svg, seed>>
    /\ UNCHANGED <<darkMode, sortOrder, phase, timers, nSorts, pureVars>>

\* The request fails: network error or non-2xx status (l. 137-141).
FetchFail ==
  \E aged \in Flags(inflight) :
    /\ inflight' = Remove(inflight, aged)
    /\ IF phase = "mounted"
       THEN /\ error' = ErrorMessage
            /\ loading' = FALSE
            /\ Render(ViewOf(phase, FALSE, ErrorMessage), data, FALSE)
       ELSE UNCHANGED <<error, loading, svg, seed>>
    /\ UNCHANGED <<data, darkMode, sortOrder, phase, timers, nSorts,
                   lastResponse, pureVars>>

HandleSort_dropTotal ==
  /\ View = "main"
  /\ nSorts < MaxSorts
  /\ IF ~HasTransactions(data)
     THEN UNCHANGED <<data, sortOrder, svg, seed, nSorts>>
     ELSE \E sortedTransactions \in SortResults(data.transactions, sortOrder) :
            /\ data' = Body(0, sortedTransactions)
            /\ sortOrder' = IF sortOrder = "desc" THEN "asc" ELSE "desc"
            /\ nSorts' = nSorts + 1
            /\ Render(View, data', TRUE)
  /\ UNCHANGED <<loading, error, darkMode, envVars, lastResponse, pureVars>>

\* A click on the Score button (l. 238), which only the main view holds:
\* handleSort (l. 145-159).
HandleSort ==
  /\ View = "main"
  /\ nSorts < MaxSorts
  /\ IF ~HasTransactions(data)
     THEN UNCHANGED <<data, sortOrder, svg, seed, nSorts>>
     ELSE \E sortedTransactions \in SortResults(data.transactions, sortOrder) :
            /\ data' = [data EXCEPT !.transactions = sortedTransactions]
            /\ sortOrder' = IF sortOrder = "desc" THEN "asc" ELSE "desc"
            /\ nSorts' = nSorts + 1
            /\ Render(View, data', TRUE)
  /\ UNCHANGED <<loading, error, darkMode, envVars, lastResponse, pureVars>>

\* A click on the theme button (l. 186), which only the main view holds.
ToggleDarkMode ==
  /\ View = "main"
  /\ darkMode' = ~darkMode
  /\ Render(View, data, TRUE)
  /\ UNCHANGED <<data, loading, error, sortOrder, envVars, nSorts,
                 lastResponse, pureVars>>

Unmount_keepTimer ==
  /\ phase = "mounted"
  /\ phase' = "unmounted"
  /\ svg' = NoSvg
  /\ UNCHANGED <<appVars, timers, inflight, seed, nSorts, lastResponse, pureVars>>

\* The dashboard is torn down: the cleanup of the mount effect (l. 128).
Unmount ==
  /\ phase = "mounted"
  /\ phase' = "unmounted"
  /\ timers' = timers - 1
  /\ svg' = NoSvg
  /\ UNCHANGED <<appVars, inflight, seed, nSorts, lastResponse, pureVars>>

Next ==
  \/ Mount
  \/ TimerFire
  \/ FetchSucceed
  \/ FetchFail
  \/ HandleSort
  \/ ToggleDarkMode
  \/ Unmount

Spec == Init /\ [][Next]_vars

(***************************************************************************)
(* The pure functions on their own: the projection of a transactions list  *)
(* and the classification of a severity, applied to inputs drawn from      *)
(* bounded sets.                                                           *)
(***************************************************************************)
ScoreStrings ==
  { <<"0">>, <<"1", "0">>, <<"9", "0">>, <<"1", "0", "0">>,
    <<"1", "5", "0">>, <<"-", "5">>, <<"n", "/", "a">> }

Severities ==
  { "HIGH", "MEDIUM-HIGH", "MEDIUM", "LOW-MEDIUM", "LOW", "VERY-LOW",
    "high", "CRITICAL", "", Undefined }

ProjectorInputs ==
  ListsUpTo({ Tx(p, a, Undefined) : p \in ScoreStrings, a \in BOOLEAN }, MaxLen)

AppIdle ==
  /\ data = Null
  /\ loading = TRUE
  /\ error = NoError
  /\ darkMode = FALSE
  /\ sortOrder = "desc"
  /\ phase = "rendered"
  /\ timers = 0
  /\ inflight = <<>>
  /\ svg = NoSvg
  /\ nSorts = 0
  /\ lastResponse = Null

PureInit ==
  /\ AppIdle
  /\ seed \in 0..(NAngles - 1)
  /\ out_points = <<>>
  /\ out_class = ""
  /\ \/ /\ pc = "project"
        /\ in_transactions \in ProjectorInputs
        /\ in_severity = Undefined
        /\ in_isDark = FALSE
     \/ /\ pc = "classify"
        /\ in_transactions = <<>>
        /\ in_severity \in Severities
        /\ in_isDark \in BOOLEAN

\* data.transactions.map(...) of l. 50-63 on the input list.
Project ==
  /\ pc = "project"
  /\ out_points' = points(in_transactions, seed)
  /\ seed' = (seed + Len(in_transactions)) % NAngles
  /\ pc' = "projected"
  /\ UNCHANGED <<appVars, envVars, svg, histVars, in_transactions, in_severity,
                 in_isDark, out_class>>

\* getSeverityClass(tx.severity, darkMode) of l. 296 on the input.
Classify ==
  /\ pc = "classify"
  /\ out_class' = getSeverityClass(in_severity, in_isDark)
  /\ pc' = "classified"
  /\ UNCHANGED <<appVars, envVars, svg, seed, histVars, in_transactions,
                 in_severity, in_isDark, out_points>>

PureNext == Project \/ Classify

PureSpec == PureInit /\ [][PureNext]_vars

(***************************************************************************)
(* Measures used by the properties.                                        *)
(***************************************************************************)
\* Squared distance of a point from the origin, in units of 1/Scale^2.
DistSq(p) == p.x.v * p.x.v + p.y.v * p.y.v

IsScore(n) == ~n.nan /\ 0 <= n.v /\ n.v <= 100

Sq(n) == n * n

(***************************************************************************)
(* Properties of the projection and of the classifier (PureSpec).          *)
(***************************************************************************)
AnomalyInBand(p) ==
  Sq(innerRadius * Scale) <= DistSq(p) /\ DistSq(p) <= Sq(radius * Scale)

\* 0.9 * innerRadius, in units of 1/Scale.
NormalLimit == (9 * innerRadius * Scale) \div 10

NormalInBand(p) == DistSq(p) <= Sq(NormalLimit)

\* C1: once the list is projected, the i-th point carries the parsed score
\* and the flag of the i-th record; every point with a score in [0,100]
\* lies at a distance in [innerRadius, radius] from the origin when it is
\* an anomaly and in [0, 0.9 * innerRadius] when it is not; and every such
\* normal point is strictly closer to the origin than every such anomaly.
C1_RadialBands ==
  pc = "projected" =>
    /\ radius = 160 /\ innerRadius = 96
    /\ Len(out_points) = Len(in_transactions)
    /\ \A i \in 1..Len(out_points) :
         LET p == out_points[i]
             tx == in_transactions[i]
         IN  /\ p.score = parseFloat(tx.anomaly_percentage)
             /\ p.isAnomaly = tx.is_anomaly
             /\ IsScore(p.score) =>
                  /\ ~p.x.nan /\ ~p.y.nan
                  /\ p.isAnomaly => AnomalyInBand(p)
                  /\ ~p.isAnomaly => NormalInBand(p)
    /\ \A i, j \in 1..Len(out_points) :
         LET n == out_points[i]
             a == out_points[j]
         IN  (IsScore(n.score) /\ IsScore(a.score) /\ ~n.isAnomaly /\ a.isAnomaly)
               => DistSq(n) < DistSq(a)

\* C1 witness: a normal point of score 100 and an anomaly of score 0, the
\* nearest the two bands come to each other, are projected together.
C1_Witness ==
  /\ pc = "projected"
  /\ \E i, j \in 1..Len(out_points) :
       /\ ~out_points[i].isAnomaly /\ out_points[i].score = Num(100)
       /\ out_points[j].isAnomaly /\ out_points[j].score = Num(0)
       /\ DistSq(out_points[i]) = Sq(NormalLimit)
       /\ DistSq(out_points[j]) = Sq(innerRadius * Scale)

\* The colour tags of the specification's table as class names: the muted
\* variant is shade 400, the weak blue is shade 400, the strong variant is
\* shade 600 for red and 500 for the other families.
ClassOfTag(family, variant) ==
  CASE family = "red" /\ variant = "strong" -> "text-red-600"
    [] family = "red" /\ variant = "muted" -> "text-red-400"
    [] family = "orange" /\ variant = "strong" -> "text-orange-500"
    [] family = "orange" /\ variant = "muted" -> "text-orange-400"
    [] family = "yellow" /\ variant = "strong" -> "text-yellow-500"
    [] family = "yellow" /\ variant = "muted" -> "text-yellow-400"
    [] family = "blue" /\ variant = "strong" -> "text-blue-500"
    [] family = "blue" /\ variant = "weak" -> "text-blue-400"
    [] family = "blue" /\ variant = "muted" -> "text-blue-400"
    [] family = "green" /\ variant = "strong" -> "text-green-500"
    [] family = "green" /\ variant = "muted" -> "text-green-400"
    [] family = "gray" /\ variant = "strong" -> "text-gray-500"
    [] family = "gray" /\ variant = "muted" -> "text-gray-400"

TableFamily(severity) ==
  CASE severity = "HIGH" -> "red"
    [] severity = "MEDIUM-HIGH" -> "orange"
    [] severity = "MEDIUM" -> "yellow"
    [] severity = "LOW-MEDIUM" -> "blue"
    [] severity = "LOW" -> "blue"
    [] severity = "VERY-LOW" -> "green"
    [] OTHER -> "gray"

TableVariant(severity, isDark) ==
  IF isDark THEN "muted"
  ELSE IF severity = "LOW-MEDIUM" THEN "weak"
  ELSE "strong"

AllClasses ==
  { ClassOfTag(f, v) :
      f \in {"red", "orange", "yellow", "green", "gray"}, v \in {"strong", "muted"} }
    \cup { ClassOfTag("blue", v) : v \in {"strong", "weak", "muted"} }

\* C2: the classifier is total and returns, for each of the six severities
\* and both themes, the tag of the table, and the gray tag of the theme for
\* every other severity, an absent one included; LOW-MEDIUM and LOW share
\* their dark tag and differ in their light tag.
C2_SeverityTable ==
  /\ pc = "classified" =>
       /\ out_class \in AllClasses
       /\ out_class = ClassOfTag(TableFamily(in_severity),
                                 TableVariant(in_severity, in_isDark))
  /\ getSeverityClass("LOW-MEDIUM", TRUE) = getSeverityClass("LOW", TRUE)
  /\ getSeverityClass("LOW-MEDIUM", FALSE) # getSeverityClass("LOW", FALSE)

\* C2 witness: LOW-MEDIUM has been classified in the light theme.
C2_Witness ==
  /\ pc = "classified"
  /\ in_severity = "LOW-MEDIUM"
  /\ ~in_isDark
  /\ out_class = "text-blue-400"

\* (radius - innerRadius) / 100, the growth of an anomaly's distance per
\* unit of score, in units of 1/Scale.
AnomalySlope == ((radius - innerRadius) * Scale) \div 100

\* The anomaly points of the projected list that have a score in [0,100].
ScoredAnomalies ==
  { i \in 1..Len(out_points) :
      out_points[i].isAnomaly /\ IsScore(out_points[i].score) }

\* C10 as stated: every anomaly point with a score in [0,100] lies strictly
\* between the inner and the outer circle.
C10_StrictlyBetween ==
  pc = "projected" =>
    \A i \in ScoredAnomalies :
      /\ Sq(innerRadius * Scale) < DistSq(out_points[i])
      /\ DistSq(out_points[i]) < Sq(radius * Scale)

\* C10 amended: an anomaly point with a score in [0,100] lies at the
\* distance innerRadius + score/100 * (radius - innerRadius), linear in the
\* score: on or between the two circles, on the inner circle exactly when
\* the score is 0 and on the outer circle exactly when it is 100.
C10_ClosedBand ==
  pc = "projected" =>
    \A i \in ScoredAnomalies :
      LET p == out_points[i]
      IN  /\ AnomalyInBand(p)
          /\ 100 * AnomalySlope = (radius - innerRadius) * Scale
          /\ DistSq(p) = Sq(innerRadius * Scale + p.score.v * AnomalySlope)
          /\ DistSq(p) = Sq(innerRadius * Scale) <=> p.score.v = 0
          /\ DistSq(p) = Sq(radius * Scale) <=> p.score.v = 100
          /\ \A j \in ScoredAnomalies :
               out_points[j].score.v < p.score.v => DistSq(out_points[j]) < DistSq(p)

\* C10 witness: anomalies of score 0 and of score 100 are projected onto
\* the inner and onto the outer circle.
C10_Witness ==
  /\ pc = "projected"
  /\ \E i, j \in ScoredAnomalies :
       /\ out_points[i].score.v = 0
       /\ DistSq(out_points[i]) = Sq(innerRadius * Scale)
       /\ out_points[j].score.v = 100
       /\ DistSq(out_points[j]) = Sq(radius * Scale)

(***************************************************************************)
(* Properties of App (Spec).                                               *)
(***************************************************************************)
Scores(list) == [i \in 1..Len(list) |-> parseFloat(list[i].anomaly_percentage)]

\* a >= b on numbers: false when either is NaN.
Geq(a, b) == ~a.nan /\ ~b.nan /\ a.v >= b.v

NonIncreasing(list) ==
  \A i \in 1..(Len(list) - 1) : Geq(Scores(list)[i], Scores(list)[i + 1])

NonDecreasing(list) ==
  \A i \in 1..(Len(list) - 1) : Geq(Scores(list)[i + 1], Scores(list)[i])

AllNumeric(list) == \A i \in 1..Len(list) : ~Scores(list)[i].nan

Count(list, r) == Cardinality({ i \in 1..Len(list) : list[i] = r })

IsPermutation(a, b) ==
  /\ Len(a) = Len(b)
  /\ \A i \in 1..Len(a) : Count(a, a[i]) = Count(b, a[i])

\* A handleSort invocation on a present record list.
SortStep == nSorts' = nSorts + 1

\* The step replaces the list by a permutation of it and flips the state.
SortPermutesAndFlips ==
  /\ HasTransactions(data) /\ HasTransactions(data')
  /\ IsPermutation(data'.transactions, data.transactions)
  /\ sortOrder' = IF sortOrder = "desc" THEN "asc" ELSE "desc"
  /\ sortOrder = IF nSorts % 2 = 0 THEN "desc" ELSE "asc"

\* The list the step leaves is ordered in the direction of the state the
\* step found: descending after an odd invocation, ascending after an even.
SortOrdersList ==
  /\ sortOrder = "desc" => NonIncreasing(data'.transactions)
  /\ sortOrder = "asc" => NonDecreasing(data'.transactions)
  /\ nSorts' % 2 = 1 => NonIncreasing(data'.transactions)
  /\ nSorts' % 2 = 0 => NonDecreasing(data'.transactions)

C4_ErrorViewOnly ==
  (phase = "mounted" /\ error # NoError /\ ~loading) =>
    /\ View = "error"
    /\ error = ErrorMessage
    /\ TableRows = <<>>
    /\ DrawnPoints = <<>>
    /\ svg = NoSvg

\* C4 witness: a fetch failed after an earlier one had delivered records.
C4_Witness ==
  /\ phase = "mounted" /\ error # NoError /\ ~loading
  /\ HasTransactions(data) /\ Len(data.transactions) > 0

\* C5: a failure leaves the timer running and starts no request of its own;
\* the timer can issue the next fetch whatever the error state; and a fetch
\* that succeeds while the dashboard is mounted clears the error, makes its
\* body the record list and brings the main view back.
C5_RecoversFromFailure ==
  /\ [](phase = "mounted" => timers = 1)
  /\ []((phase = "mounted" /\ Len(inflight) < MaxInflight) => ENABLED TimerFire)
  /\ [][(Len(inflight') < Len(inflight) /\ FetchFail) =>
          /\ Len(inflight') = Len(inflight) - 1
          /\ timers' = timers
          /\ phase = "mounted" => (error' = ErrorMessage /\ ~loading')]_vars
  /\ [][(phase = "mounted" /\ Len(inflight') < Len(inflight) /\ FetchSucceed) =>
          /\ error' = NoError
          /\ ~loading'
          /\ data' \in Responses
          /\ data' = lastResponse'
          /\ ViewOf(phase', loading', error') = "main"]_vars

\* C5 witness: with the error of a failed fetch still set, the timer has
\* issued the next fetch, which is outstanding.
C5_Witness ==
  /\ phase = "mounted"
  /\ error # NoError
  /\ loading
  /\ timers = 1
  /\ inflight = <<FALSE>>

\* The last successful response applied had no records: its transactions
\* list is empty or its transactions key is missing.
LastResponseEmpty ==
  /\ phase = "mounted"
  /\ ~lastResponse.isNull
  /\ lastResponse.transactions = <<>>

\* C6: whenever the last successful response applied has an empty
\* transactions list or no transactions key, the view displays no table
\* row and no projected point, whatever was fetched, sorted or toggled
\* before.
C6_EmptyResponseShowsNothing ==
  LastResponseEmpty => (TableRows = <<>> /\ DrawnPoints = <<>>)

HasNonNumeric(list) == \E i \in 1..Len(list) : Scores(list)[i].nan

C8_AtMostOneOutstanding == Len(inflight) <= 1

\* The outstanding requests issued since the last tick of the timer.
Fresh == { i \in 1..Len(inflight) : ~inflight[i] }

\* C8 amended: the timer starts a fetch at every tick whether or not an
\* earlier one is outstanding, so requests overlap, but only when a response
\* takes a whole interval or longer: at most one outstanding request was
\* issued since the last tick, it is the youngest, and every other one has
\* been outstanding at a tick.
C8_OverlapOnlyAcrossTicks ==
  /\ Cardinality(Fresh) <= 1
  /\ \A i \in Fresh : i = Len(inflight)
  /\ (timers > 0 /\ Len(inflight) < MaxInflight) => ENABLED TimerFire

\* C8 witness: two requests are outstanding, the older one since before the
\* last tick.
C8_Witness ==
  /\ phase = "mounted"
  /\ inflight = <<TRUE, FALSE>>

\* C9: one timer is acquired by the mount effect and it is released at
\* teardown: never more than one timer is active, exactly one while the
\* dashboard is mounted, none before and none after; after teardown the
\* timer cannot fire and no fetch is initiated.
C9_TimerScopedToMount ==
  /\ [](timers <= 1)
  /\ [](timers = IF phase = "mounted" THEN 1 ELSE 0)
  /\ [](phase = "unmounted" => ~ENABLED TimerFire)
  /\ [][phase = "unmounted" =>
          (phase' = "unmounted" /\ timers' = 0 /\ Len(inflight') <= Len(inflight))]_vars

\* C9 witness: the dashboard is torn down after it displayed a response, a
\* later request still being outstanding, and no timer is left.
C9_Witness ==
  /\ phase = "unmounted"
  /\ timers = 0
  /\ ~data.isNull
  /\ inflight # <<>>

\* The records of the current record list: none when the list is absent.
CurrentRecords == IF HasTransactions(data) THEN data.transactions ELSE <<>>

\* C11: whatever fetches, sorts and theme switches led to the main view,
\* the points drawn are those of the current record list and no others:
\* there are as many points as the current list has records, the i-th point
\* carries the parsed score and the is_anomaly flag of the i-th record, and
\* no point of an earlier list remains.
C11_PointsOfCurrentList ==
  View = "main" =>
    /\ Len(DrawnPoints) = Len(CurrentRecords)
    /\ \A i \in 1..Len(DrawnPoints) :
         /\ DrawnPoints[i].score = parseFloat(CurrentRecords[i].anomaly_percentage)
         /\ DrawnPoints[i].isAnomaly = CurrentRecords[i].is_anomaly

\* The sort-order state agrees with the order of the current record list:
\* when it is 'asc' a list of numeric scores is in descending order.
SortStateAgrees ==
  (sortOrder = "asc" /\ AllNumeric(CurrentRecords)) => NonIncreasing(CurrentRecords)

\* A successful response is applied and replaces the data.
ListReplacedByFetch == Len(inflight') < Len(inflight) /\ data' # data

\* C12 as stated, taken on lists of numeric scores: in every state where
\* the main view is shown and sortOrder is 'asc', the displayed list is in
\* descending order by score, whatever operation led there, a fetch that
\* replaces the list between two sort clicks included.
C12_SortStateAlwaysAgrees ==
  (View = "main" /\ sortOrder = "asc" /\ AllNumeric(CurrentRecords))
    => NonIncreasing(CurrentRecords)

\* C12 amended: the state agrees with the order of a list of numeric
\* scores before the first invocation and after every handleSort
\* invocation, and every operation other than the application of a fetched
\* response preserves the agreement; a fetched response replaces the list
\* and leaves sortOrder as it was.
C12_AgreesUntilFetch ==
  /\ [](nSorts = 0 => sortOrder = "desc")
  /\ [][SortStep => SortStateAgrees']_vars
  /\ [][(SortStateAgrees /\ ~ListReplacedByFetch) => SortStateAgrees']_vars
  /\ [][ListReplacedByFetch => (sortOrder' = sortOrder /\ nSorts' = nSorts)]_vars

\* C12 witness: one invocation turned a list received in ascending order
\* into descending order, the state being 'asc' now.
C12_Witness ==
  /\ View = "main"
  /\ nSorts = 1
  /\ sortOrder = "asc"
  /\ Len(CurrentRecords) = 2
  /\ AllNumeric(CurrentRecords)
  /\ Scores(CurrentRecords)[1].v > Scores(CurrentRecords)[2].v
  /\ data.transactions # lastResponse.transactions

\* The data on display are those of the last response applied, the records
\* possibly in another order.
DataIsLastResponse ==
  /\ data.isNull = lastResponse.isNull
  /\ data.hasTransactions = lastResponse.hasTransactions
  /\ data.total_transactions = lastResponse.total_transactions
  /\ IsPermutation(data.transactions, lastResponse.transactions)

\* The step touches nothing but the order of the records and the
\* sort-order state.
SortTouchesOrderOnly ==
  /\ HasTransactions(data) /\ HasTransactions(data')
  /\ IsPermutation(data'.transactions, data.transactions)
  /\ data'.total_transactions = data.total_transactions
  /\ error' = error
  /\ loading' = loading
  /\ lastResponse' = lastResponse

\* C13: in every reachable state the current record list is a permutation
\* of the transactions of the last successful response applied, with its
\* total_transactions; a handleSort invocation neither adds, drops nor
\* alters a record and leaves total_transactions, error and loading alone,
\* so it never brings back records of an earlier response; when the record
\* list is absent handleSort changes nothing, sortOrder included.
C13_ListIsLastResponse ==
  /\ []DataIsLastResponse
  /\ [][SortStep => SortTouchesOrderOnly]_vars
  /\ []((View = "main" /\ ~HasTransactions(data))
          => ~ENABLED (HandleSort /\ vars' # vars))

\* C13 witness: the records of the last response are held in another
\* order after a sort, while a later request is outstanding.
C13_Witness ==
  /\ nSorts >= 1
  /\ HasTransactions(data)
  /\ Len(data.transactions) = 2
  /\ data.transactions # lastResponse.transactions
  /\ IsPermutation(data.transactions, lastResponse.transactions)
  /\ inflight # <<>>

====
